---- MODULE Spec2Model ----
(***************************************************************************)
(* il-vaticano: a PGN visitor (IlVaticanoCounter) that replays the         *)
(* mainline of every game of every input file on a chess position and      *)
(* counts, before each half-move, the positions in which two bishops of    *)
(* the side to move flank two enemy pawns on one rank (src/main.rs).       *)
(*                                                                         *)
(* Squares are numbered as in shakmaty: 0 = a1, 7 = h1, 8 = a2, 63 = h8.   *)
(* A Bitboard is modelled as the set of the squares whose bit is set.      *)
(* A SAN token is modelled by the move it names, [from |-> s, to |-> t];   *)
(* resolving it (San::to_move) succeeds when that move obeys the piece's   *)
(* movement rule on the current board.                                     *)
(***************************************************************************)
EXTENDS Integers, Sequences, FiniteSets, TLC

VARIABLES
    stats,      \* the IlVaticanoCounter of the file being read
    pc,         \* where main and the reader stand
    fileIdx,    \* number of arguments whose processing has begun
    varDepth,   \* depth of the side-line the reader is in (0 = mainline)
    skipping,   \* the answer of begin_variation that opened that side-line
    sideSeen,   \* history: the reader met a token inside the current side-line
    out,        \* the lines printed so far
    replay,     \* history: Chess::default() with the current game's mainline
                \* tokens played on it, one by one as the reader delivered them
    mainSeen,   \* history: mainline tokens the reader delivered from this file
    gamesSeen,  \* history: games the reader began in this file
    last        \* history: the last step that reached main or the visitor

vars == <<stats, pc, fileIdx, varDepth, skipping, sideSeen, out, replay, mainSeen, gamesSeen, last>>

-----------------------------------------------------------------------------
(* Bounds of the model *)

MaxFiles == 2        \* command-line arguments
MaxGames == 2        \* games begun in one run
MaxSans == 9         \* mainline half-moves delivered in one run
MaxVarDepth == 2     \* nesting of side-lines

-----------------------------------------------------------------------------
(* Squares, pieces, bitboards *)

Squares == 0..63

FileOf(s) == s % 8

RankOf(s) == s \div 8

Sq(f, r) == r * 8 + f

WhitePieces == {"P", "N", "B", "R", "Q", "K"}

BlackPieces == {"p", "n", "b", "r", "q", "k"}

Empty == "."

Other(color) == IF color = "White" THEN "Black" ELSE "White"

PiecesOf(color) == IF color = "White" THEN WhitePieces ELSE BlackPieces

\* the character board_fen prints for a role of a color
Char(color, role) ==
    IF color = "White"
    THEN CASE role = "Pawn" -> "P" [] role = "Knight" -> "N" [] role = "Bishop" -> "B"
           [] role = "Rook" -> "R" [] role = "Queen" -> "Q" [] role = "King" -> "K"
    ELSE CASE role = "Pawn" -> "p" [] role = "Knight" -> "n" [] role = "Bishop" -> "b"
           [] role = "Rook" -> "r" [] role = "Queen" -> "q" [] role = "King" -> "k"

RoleOf(piece) ==
    CASE piece \in {"P", "p"} -> "Pawn" [] piece \in {"N", "n"} -> "Knight"
      [] piece \in {"B", "b"} -> "Bishop" [] piece \in {"R", "r"} -> "Rook"
      [] piece \in {"Q", "q"} -> "Queen" [] piece \in {"K", "k"} -> "King"

\* Position::our(role): the squares of the side to move's pieces of that role
our(p, role) == LET ch == Char(p.turn, role) IN {s \in Squares : p.board[s] = ch}

\* Position::their(role): the same for the side not to move
their(p, role) ==
    LET ch == Char(Other(p.turn), role) IN {s \in Squares : p.board[s] = ch}

\* Bitboard::from_rank(Rank::new(rank)), rank counted from 0
from_rank(rank) == (rank * 8)..(rank * 8 + 7)

-----------------------------------------------------------------------------
(* The constant Bitboard(15824412808329216), read from its decimal digits *)

\* the constant with its last digit one higher (bit 0, the square a1, set)
BISHOP_MASK_DIGITS_odd == <<1, 5, 8, 2, 4, 4, 1, 2, 8, 0, 8, 3, 2, 9, 2, 1, 7>>


BISHOP_MASK_DIGITS == <<1, 5, 8, 2, 4, 4, 1, 2, 8, 0, 8, 3, 2, 9, 2, 1, 6>>

\* the decimal number d halved (long division by 2, the remainder dropped)
RECURSIVE HalfFrom(_, _, _)
HalfFrom(d, i, carry) ==
    IF i > Len(d) THEN <<>>
    ELSE <<(carry * 10 + d[i]) \div 2>> \o HalfFrom(d, i + 1, (carry * 10 + d[i]) % 2)

Half(d) == HalfFrom(d, 1, 0)

IsZero(d) == \A i \in 1..Len(d) : d[i] = 0

\* the set of the bits set in the decimal number d, bit k being square k
RECURSIVE BitsFrom(_, _)
BitsFrom(d, k) ==
    IF IsZero(d) \/ k > 63 THEN {}
    ELSE (IF d[Len(d)] % 2 = 1 THEN {k} ELSE {}) \cup BitsFrom(Half(d), k + 1)

\* a mask of the e file alone
BISHOP_MASK_e_file == {s \in BitsFrom(BISHOP_MASK_DIGITS, 0) : FileOf(s) = 4}


BISHOP_MASK == BitsFrom(BISHOP_MASK_DIGITS, 0)

-----------------------------------------------------------------------------
(* Board::board_fen(Bitboard(0)).to_string() and str::contains *)

Digit(n) == CASE n = 1 -> "1" [] n = 2 -> "2" [] n = 3 -> "3" [] n = 4 -> "4"
              [] n = 5 -> "5" [] n = 6 -> "6" [] n = 7 -> "7" [] n = 8 -> "8"

\* a rank encoding that leaves the empty squares out
RankFen_no_gaps(board, r, f, run) ==
    SelectSeq([i \in 1..8 |-> board[Sq(i - 1, r)]], LAMBDA c : c # Empty)

\* one rank, from file f on, with `run` empty squares pending
RECURSIVE RankFen(_, _, _, _)
RankFen(board, r, f, run) ==
    IF f > 7 THEN (IF run > 0 THEN <<Digit(run)>> ELSE <<>>)
    ELSE IF board[Sq(f, r)] = Empty THEN RankFen(board, r, f + 1, run + 1)
    ELSE (IF run > 0 THEN <<Digit(run)>> ELSE <<>>)
         \o <<board[Sq(f, r)]>> \o RankFen(board, r, f + 1, 0)

\* an encoding that writes the ranks one after the other without "/"
RECURSIVE FenFrom_unseparated(_, _)
FenFrom_unseparated(board, r) ==
    RankFen(board, r, 0, 0)
    \o (IF r = 0 THEN <<>> ELSE FenFrom_unseparated(board, r - 1))


\* ranks r down to 0, separated by "/"
RECURSIVE FenFrom(_, _)
FenFrom(board, r) ==
    RankFen(board, r, 0, 0)
    \o (IF r = 0 THEN <<>> ELSE <<"/">> \o FenFrom(board, r - 1))

board_fen(board) == FenFrom(board, 7)

contains(text, pat) ==
    \E i \in 1..(Len(text) - Len(pat) + 1) : SubSeq(text, i, i + Len(pat) - 1) = pat

-----------------------------------------------------------------------------
(* Chess::default() *)

BackRank == <<"R", "N", "B", "Q", "K", "B", "N", "R">>

Lower(c) == CASE c = "R" -> "r" [] c = "N" -> "n" [] c = "B" -> "b"
              [] c = "Q" -> "q" [] c = "K" -> "k" [] c = "P" -> "p"

StartBoard ==
    [s \in Squares |->
        CASE RankOf(s) = 0 -> BackRank[FileOf(s) + 1]
          [] RankOf(s) = 1 -> "P"
          [] RankOf(s) = 6 -> "p"
          [] RankOf(s) = 7 -> Lower(BackRank[FileOf(s) + 1])
          [] OTHER -> Empty]

ChessDefault == [board |-> StartBoard, turn |-> "White"]

-----------------------------------------------------------------------------
(* San::to_move and Chess::play_unchecked, as make_move uses them.          *)
(* A token resolves when the move it names obeys the movement rule of the  *)
(* piece on its origin square: pushes and captures of pawns, leaps of      *)
(* knights and kings, unobstructed slides of bishops, rooks and queens.    *)
(* Castling, en passant and the pin/check rule are not in the token sets   *)
(* the model draws from.                                                   *)

Abs(x) == IF x < 0 THEN -x ELSE x

Sgn(x) == IF x < 0 THEN -1 ELSE IF x > 0 THEN 1 ELSE 0

Max(a, b) == IF a > b THEN a ELSE b

DF(m) == FileOf(m.to) - FileOf(m.from)

DR(m) == RankOf(m.to) - RankOf(m.from)

\* the squares strictly between the ends of a straight or diagonal move
Between(m) ==
    {Sq(FileOf(m.from) + k * Sgn(DF(m)), RankOf(m.from) + k * Sgn(DR(m))) :
        k \in 1..(Max(Abs(DF(m)), Abs(DR(m))) - 1)}

PathClear(board, m) == \A s \in Between(m) : board[s] = Empty

Forward(color) == IF color = "White" THEN 1 ELSE -1

PawnRank(color) == IF color = "White" THEN 1 ELSE 6

LastRank(color) == IF color = "White" THEN 7 ELSE 0

PawnMove(p, m) ==
    \/ /\ DF(m) = 0
       /\ DR(m) = Forward(p.turn)
       /\ p.board[m.to] = Empty
    \/ /\ DF(m) = 0
       /\ DR(m) = 2 * Forward(p.turn)
       /\ RankOf(m.from) = PawnRank(p.turn)
       /\ p.board[m.to] = Empty
       /\ PathClear(p.board, m)
    \/ /\ Abs(DF(m)) = 1
       /\ DR(m) = Forward(p.turn)
       /\ p.board[m.to] \in PiecesOf(Other(p.turn))

Diagonal(m) == Abs(DF(m)) = Abs(DR(m))

Straight(m) == DF(m) = 0 \/ DR(m) = 0

\* san.to_move(&self.pos) is Ok(m)
to_move_ok(p, m) ==
    /\ m.from # m.to
    /\ p.board[m.from] \in PiecesOf(p.turn)
    /\ p.board[m.to] \notin PiecesOf(p.turn)
    /\ CASE RoleOf(p.board[m.from]) = "Pawn" -> PawnMove(p, m)
         [] RoleOf(p.board[m.from]) = "Knight" -> {Abs(DF(m)), Abs(DR(m))} = {1, 2}
         [] RoleOf(p.board[m.from]) = "Bishop" -> Diagonal(m) /\ PathClear(p.board, m)
         [] RoleOf(p.board[m.from]) = "Rook" -> Straight(m) /\ PathClear(p.board, m)
         [] RoleOf(p.board[m.from]) = "Queen" ->
                (Diagonal(m) \/ Straight(m)) /\ PathClear(p.board, m)
         [] RoleOf(p.board[m.from]) = "King" -> Max(Abs(DF(m)), Abs(DR(m))) = 1

\* the piece standing on m.to after the move: a pawn reaching the last rank
\* is promoted (to a queen)
Arrives(p, m) ==
    IF RoleOf(p.board[m.from]) = "Pawn" /\ RankOf(m.to) = LastRank(p.turn)
    THEN Char(p.turn, "Queen")
    ELSE p.board[m.from]

\* self.pos.play_unchecked(&m)
play_unchecked(p, m) ==
    [board |-> [p.board EXCEPT ![m.from] = Empty, ![m.to] = Arrives(p, m)],
     turn |-> Other(p.turn)]

-----------------------------------------------------------------------------
(* IlVaticanoCounter *)

\* IlVaticanoCounter::new(); the field `time` (an Instant) is left out
new == [games |-> 0, sans |-> 0, ilvaticanos |-> 0, pos |-> ChessDefault, passed |-> 0]

\* a make_move that passes over a token it cannot resolve
make_move_lenient(self, san_token) ==
    IF to_move_ok(self.pos, san_token)
    THEN [self |-> [self EXCEPT !.pos = play_unchecked(self.pos, san_token)], panic |-> FALSE]
    ELSE [self |-> self, panic |-> FALSE]

\* make_move: the visitor after the move, or a panic (expect on an Err)
make_move(self, san_token) ==
    IF to_move_ok(self.pos, san_token)
    THEN [self |-> [self EXCEPT !.pos = play_unchecked(self.pos, san_token)],
          panic |-> FALSE]
    ELSE [self |-> self, panic |-> TRUE]

\* a begin_game that starts every game with fresh move counters
begin_game_restarts(self) == [new EXCEPT !.games = self.games]


\* a begin_game that keeps the position of the game before
begin_game_keeps(self) == self

begin_game(self) == [self EXCEPT !.pos = ChessDefault]

\* stage 1 written with | for &
no_bishop_in_mask_or(p) == (our(p, "Bishop") \cup BISHOP_MASK) = {}

\* (self.pos.our(Role::Bishop) & BISHOP_MASK) == Bitboard(0)
no_bishop_in_mask(p) == (our(p, "Bishop") \cap BISHOP_MASK) = {}

\* the condition of the loop body written with || for &&
rank_check_or(bishops, pawns, rank) ==
    \/ Cardinality(bishops \cap from_rank(rank)) >= 2
    \/ Cardinality(pawns \cap from_rank(rank)) >= 2

\* the condition of the loop body for one rank, on the two bitboards
\* self.pos.our(Role::Bishop) and self.pos.their(Role::Pawn)
rank_check(bishops, pawns, rank) ==
    /\ Cardinality(bishops \cap from_rank(rank)) >= 2
    /\ Cardinality(pawns \cap from_rank(rank)) >= 2

\* for rank in 1..=6 { if .. { passed_ranks_check = true; break; } }
RECURSIVE ranks_loop(_, _, _)
ranks_loop(bishops, pawns, rank) ==
    IF rank > 6 THEN FALSE
    ELSE IF rank_check(bishops, pawns, rank) THEN TRUE
    ELSE ranks_loop(bishops, pawns, rank + 1)

passed_ranks_check(p) ==
    LET bishops == our(p, "Bishop")
        pawns == their(p, "Pawn")
    IN ranks_loop(bishops, pawns, 1)

\* stage 3 with the two patterns exchanged
fen_check_swapped(p) ==
    \/ p.turn = "Black" /\ contains(board_fen(p.board), <<"B", "p", "p", "B">>)
    \/ p.turn = "White" /\ contains(board_fen(p.board), <<"b", "P", "P", "b">>)

\* turn == Black && fen.contains("bPPb") || turn == White && fen.contains("BppB")
fen_check(p) ==
    \/ p.turn = "Black" /\ contains(board_fen(p.board), <<"b", "P", "P", "b">>)
    \/ p.turn = "White" /\ contains(board_fen(p.board), <<"B", "p", "p", "B">>)

\* a san that counts the half-move only after the two early returns
san_counts_late(self, san_token) ==
    IF no_bishop_in_mask(self.pos) THEN make_move(self, san_token)
    ELSE IF ~passed_ranks_check(self.pos) THEN make_move(self, san_token)
    ELSE LET s1 == [self EXCEPT !.sans = self.sans + 1]
             s2 == [s1 EXCEPT !.passed = s1.passed + 1]
             s3 == IF fen_check(s2.pos)
                   THEN [s2 EXCEPT !.ilvaticanos = s2.ilvaticanos + 1]
                   ELSE s2
         IN make_move(s3, san_token)

\* a san whose first early return forgets to play the move
san_forgets_move(self, san_token) ==
    LET s1 == [self EXCEPT !.sans = self.sans + 1] IN
    IF no_bishop_in_mask(s1.pos) THEN [self |-> s1, panic |-> FALSE]
    ELSE IF ~passed_ranks_check(s1.pos) THEN make_move(s1, san_token)
    ELSE LET s2 == [s1 EXCEPT !.passed = s1.passed + 1]
             s3 == IF fen_check(s2.pos)
                   THEN [s2 EXCEPT !.ilvaticanos = s2.ilvaticanos + 1]
                   ELSE s2
         IN make_move(s3, san_token)

\* a san whose loop counts a pass for every rank that matches (no break)
san_counts_ranks(self, san_token) ==
    LET s1 == [self EXCEPT !.sans = self.sans + 1]
        n == Cardinality({rank \in 1..6 :
                 rank_check(our(s1.pos, "Bishop"), their(s1.pos, "Pawn"), rank)})
    IN
    IF no_bishop_in_mask(s1.pos) THEN make_move(s1, san_token)
    ELSE IF n = 0 THEN make_move(s1, san_token)
    ELSE LET s2 == [s1 EXCEPT !.passed = s1.passed + n]
             s3 == IF fen_check(s2.pos)
                   THEN [s2 EXCEPT !.ilvaticanos = s2.ilvaticanos + 1]
                   ELSE s2
         IN make_move(s3, san_token)

\* a san that counts a pass only when the confirmation fails
san_pass_in_else(self, san_token) ==
    LET s1 == [self EXCEPT !.sans = self.sans + 1] IN
    IF no_bishop_in_mask(s1.pos) THEN make_move(s1, san_token)
    ELSE IF ~passed_ranks_check(s1.pos) THEN make_move(s1, san_token)
    ELSE LET s3 == IF fen_check(s1.pos)
                   THEN [s1 EXCEPT !.ilvaticanos = s1.ilvaticanos + 1]
                   ELSE [s1 EXCEPT !.passed = s1.passed + 1]
         IN make_move(s3, san_token)

\* a san that plays the move first and examines the position it gives
san_examines_after(self, san_token) ==
    LET m == make_move([self EXCEPT !.sans = self.sans + 1], san_token)
        s1 == m.self
    IN
    IF m.panic \/ no_bishop_in_mask(s1.pos) \/ ~passed_ranks_check(s1.pos) THEN m
    ELSE LET s2 == [s1 EXCEPT !.passed = s1.passed + 1]
             s3 == IF fen_check(s2.pos)
                   THEN [s2 EXCEPT !.ilvaticanos = s2.ilvaticanos + 1]
                   ELSE s2
         IN [self |-> s3, panic |-> FALSE]


\* Visitor::san
san(self, san_token) ==
    LET s1 == [self EXCEPT !.sans = self.sans + 1] IN
    IF no_bishop_in_mask(s1.pos) THEN make_move(s1, san_token)
    ELSE IF ~passed_ranks_check(s1.pos) THEN make_move(s1, san_token)
    ELSE LET s2 == [s1 EXCEPT !.passed = s1.passed + 1]
             s3 == IF fen_check(s2.pos)
                   THEN [s2 EXCEPT !.ilvaticanos = s2.ilvaticanos + 1]
                   ELSE s2
         IN make_move(s3, san_token)

\* a begin_variation that answers Skip(false)
begin_variation_descends(self) == FALSE

\* Visitor::begin_variation: Skip(true)
begin_variation(self) == TRUE

REPORT_EVERY == 100000

\* an end_game that counts only the games in which a move was played
end_game_nonempty(self) ==
    IF self.pos = ChessDefault THEN self ELSE [self EXCEPT !.games = self.games + 1]

\* Visitor::end_game: the counter, and the lines it prints
end_game(self) == [self EXCEPT !.games = self.games + 1]

Counters(self) ==
    [games |-> self.games, sans |-> self.sans,
     ilvaticanos |-> self.ilvaticanos, passed |-> self.passed]

\* an end_game that tests the counter before it adds the game
end_game_prints_early(self) ==
    IF self.games % REPORT_EVERY = 0
    THEN <<[kind |-> "progress", file |-> 0, stats |-> Counters(end_game(self))]>>
    ELSE <<>>


end_game_prints(self) ==
    IF end_game(self).games % REPORT_EVERY = 0
    THEN <<[kind |-> "progress", file |-> 0, stats |-> Counters(end_game(self))]>>
    ELSE <<>>

-----------------------------------------------------------------------------
(* The tokens the model's input files are written with *)

\* files a..h are 0..7, ranks are written 1..8
Mv(f1, r1, f2, r2) == [from |-> Sq(f1, r1 - 1), to |-> Sq(f2, r2 - 1)]

\* 1. d4 e5 2. e4 exd4 3. Bf4 d5 4. Bc4 dxe4 5. Bb3, and h5, h4 beside it
Tokens ==
    {Mv(3, 2, 3, 4), Mv(4, 2, 4, 4), Mv(2, 1, 5, 4), Mv(5, 1, 2, 4), Mv(2, 4, 1, 3),
     Mv(4, 7, 4, 5), Mv(4, 5, 3, 4), Mv(3, 7, 3, 5), Mv(3, 5, 4, 4),
     Mv(7, 7, 7, 5), Mv(7, 5, 7, 4)}

-----------------------------------------------------------------------------
(* main and BufferedReader::read_all driving the visitor *)

\* the totals of the files read to their end, as their reports show them
RECURSIVE SansPrinted(_)
SansPrinted(lines) ==
    IF lines = <<>> THEN 0
    ELSE (IF Head(lines).kind = "file" THEN Head(lines).stats.sans ELSE 0)
         + SansPrinted(Tail(lines))

RECURSIVE GamesPrinted(_)
GamesPrinted(lines) ==
    IF lines = <<>> THEN 0
    ELSE (IF Head(lines).kind = "file" THEN Head(lines).stats.games ELSE 0)
         + GamesPrinted(Tail(lines))

\* half-moves delivered to san, and games begun, since the run began
\* (read while a file is open)
Delivered == SansPrinted(out) + stats.sans

Begun == GamesPrinted(out) + stats.games

Init ==
    /\ stats = new
    /\ pc = "main"
    /\ fileIdx = 0
    /\ varDepth = 0
    /\ skipping = FALSE
    /\ sideSeen = FALSE
    /\ out = <<>>
    /\ replay = ChessDefault
    /\ mainSeen = 0
    /\ gamesSeen = 0
    /\ last = [op |-> "start", passed |-> 0, ilvaticanos |-> 0]

\* a main that makes one counter before the loop and uses it for every file
OpenFile_one_counter ==
    /\ pc = "main"
    /\ fileIdx < MaxFiles
    /\ fileIdx' = fileIdx + 1
    /\ pc' = "idle"
    /\ replay' = ChessDefault
    /\ mainSeen' = 0
    /\ gamesSeen' = 0
    /\ last' = [op |-> "open", passed |-> 0, ilvaticanos |-> 0]
    /\ UNCHANGED <<stats, varDepth, skipping, sideSeen, out>>


\* the next argument opens and decodes: a fresh IlVaticanoCounter
OpenFile ==
    /\ pc = "main"
    /\ fileIdx < MaxFiles
    /\ fileIdx' = fileIdx + 1
    /\ stats' = new
    /\ pc' = "idle"
    /\ replay' = ChessDefault
    /\ mainSeen' = 0
    /\ gamesSeen' = 0
    /\ last' = [op |-> "open", passed |-> 0, ilvaticanos |-> 0]
    /\ UNCHANGED <<varDepth, skipping, sideSeen, out>>

\* File::open or zstd::Decoder::new returns Err: main returns it
OpenFail ==
    /\ pc = "main"
    /\ fileIdx < MaxFiles
    /\ fileIdx' = fileIdx + 1
    /\ pc' = "aborted"
    /\ last' = [op |-> "open_fail", passed |-> 0, ilvaticanos |-> 0]
    /\ UNCHANGED <<stats, varDepth, skipping, sideSeen, out, replay, mainSeen, gamesSeen>>

\* read_all returns Err (the stream fails to decode after some game)
ReadFail ==
    /\ pc = "idle"
    /\ pc' = "aborted"
    /\ last' = [op |-> "read_fail", passed |-> 0, ilvaticanos |-> 0]
    /\ UNCHANGED <<stats, fileIdx, varDepth, skipping, sideSeen, out, replay, mainSeen, gamesSeen>>

BeginGame ==
    /\ pc = "idle"
    /\ Begun < MaxGames
    /\ stats' = begin_game(stats)
    /\ pc' = "game"
    /\ replay' = ChessDefault
    /\ gamesSeen' = gamesSeen + 1
    /\ last' = [op |-> "begin_game", passed |-> 0, ilvaticanos |-> 0]
    /\ UNCHANGED <<fileIdx, varDepth, skipping, sideSeen, out, mainSeen>>

\* a mainline token
San(t) ==
    /\ pc = "game"
    /\ varDepth = 0
    /\ Delivered < MaxSans
    /\ LET r == san(stats, t)
       IN /\ stats' = r.self
          /\ pc' = IF r.panic THEN "aborted" ELSE "game"
    /\ replay' = IF to_move_ok(replay, t) THEN play_unchecked(replay, t) ELSE replay
    /\ mainSeen' = mainSeen + 1
    /\ last' = [op |-> "san",
                passed |-> stats'.passed - stats.passed,
                ilvaticanos |-> stats'.ilvaticanos - stats.ilvaticanos]
    /\ UNCHANGED <<fileIdx, varDepth, skipping, sideSeen, out, gamesSeen>>

\* "(": in the mainline, or in a side-line the visitor descended into, the
\* reader asks begin_variation; inside a skipped side-line it only counts
BeginVariation ==
    /\ pc = "game"
    /\ varDepth < MaxVarDepth
    /\ varDepth' = varDepth + 1
    /\ skipping' = IF varDepth > 0 /\ skipping THEN TRUE ELSE begin_variation(stats)
    /\ UNCHANGED <<stats, pc, fileIdx, sideSeen, out, replay, mainSeen, gamesSeen, last>>

\* a token inside a side-line: passed over when the side-line is skipped,
\* handed to san otherwise
SideSan(t) ==
    /\ pc = "game"
    /\ varDepth > 0
    /\ sideSeen' = TRUE
    /\ LET r == san(stats, t)
       IN /\ stats' = IF skipping THEN stats ELSE r.self
          /\ pc' = IF ~skipping /\ r.panic THEN "aborted" ELSE "game"
    /\ UNCHANGED <<fileIdx, varDepth, skipping, out, replay, mainSeen, gamesSeen, last>>

\* ")"
EndVariation ==
    /\ pc = "game"
    /\ varDepth > 0
    /\ varDepth' = varDepth - 1
    /\ sideSeen' = IF varDepth = 1 THEN FALSE ELSE sideSeen
    /\ skipping' = IF varDepth = 1 THEN FALSE ELSE skipping
    /\ UNCHANGED <<stats, pc, fileIdx, out, replay, mainSeen, gamesSeen, last>>

EndGame ==
    /\ pc = "game"
    /\ varDepth = 0
    /\ stats' = end_game(stats)
    /\ out' = out \o end_game_prints(stats)
    /\ pc' = "idle"
    /\ last' = [op |-> "end_game", passed |-> 0, ilvaticanos |-> 0]
    /\ UNCHANGED <<fileIdx, varDepth, skipping, sideSeen, replay, mainSeen, gamesSeen>>

\* read_all returns Ok(()): println!("{}: {:?}", arg, stats), of which the
\* argument and the counters are kept
EndFile ==
    /\ pc = "idle"
    /\ out' = Append(out, [kind |-> "file", file |-> fileIdx, stats |-> Counters(stats)])
    /\ pc' = "main"
    /\ last' = [op |-> "end_file", passed |-> 0, ilvaticanos |-> 0]
    /\ UNCHANGED <<stats, fileIdx, varDepth, skipping, sideSeen, replay, mainSeen, gamesSeen>>

\* a main that returns without the final report
Finish_quiet ==
    /\ pc = "main"
    /\ pc' = "done"
    /\ last' = [op |-> "finish", passed |-> 0, ilvaticanos |-> 0]
    /\ UNCHANGED <<stats, fileIdx, varDepth, skipping, sideSeen, out, replay, mainSeen, gamesSeen>>


\* the arguments are exhausted: println!("Took {} ms.", ..); Ok(())
Finish ==
    /\ pc = "main"
    /\ out' = Append(out, [kind |-> "took", file |-> fileIdx, stats |-> Counters(new)])
    /\ pc' = "done"
    /\ last' = [op |-> "finish", passed |-> 0, ilvaticanos |-> 0]
    /\ UNCHANGED <<stats, fileIdx, varDepth, skipping, sideSeen, replay, mainSeen, gamesSeen>>

Next ==
    \/ OpenFile
    \/ OpenFail
    \/ ReadFail
    \/ BeginGame
    \/ \E t \in Tokens : San(t)
    \/ BeginVariation
    \/ \E t \in Tokens : SideSan(t)
    \/ EndVariation
    \/ EndGame
    \/ EndFile
    \/ Finish

Spec == Init /\ [][Next]_vars

-----------------------------------------------------------------------------
(* The detector on arranged positions: on_halfmove is called once on a     *)
(* position holding the two kings and four consecutive squares of the      *)
(* board (in the order board_fen reads them, so that a window may straddle *)
(* two ranks) filled with bishops, pawns and gaps of either color, or on   *)
(* the run laid out with a gap, across two ranks, on two ranks or twice.   *)

Window == 0..3

WindowStarts == 0..60

Colors == {"White", "Black"}

Alphabet == {Empty, "B", "b", "P", "p"}

\* the i-th square board_fen reads: a8, b8, .., h8, a7, .., h1
FenSquare(i) == Sq(i % 8, 7 - (i \div 8))

WindowSquares(w) == {FenSquare(w + k) : k \in Window}

Lowest(S) == CHOOSE s \in S : \A u \in S : s <= u

\* the kings stand on the first free square of their back ranks
KingSquare(color, w) ==
    Lowest(from_rank(IF color = "White" THEN 0 ELSE 7) \ WindowSquares(w))

\* the place of square s in the order board_fen reads the squares
FenIndex(s) == (7 - RankOf(s)) * 8 + FileOf(s)

Arranged(w, pat, turn) ==
    LET wk == KingSquare("White", w)
        bk == KingSquare("Black", w)
    IN [board |->
           [s \in Squares |->
               IF FenIndex(s) - w \in Window THEN pat[FenIndex(s) - w]
               ELSE IF s = wk THEN "K"
               ELSE IF s = bk THEN "k"
               ELSE Empty],
        turn |-> turn]

\* the side to move attacks s with a bishop or a pawn
Attacks(p, s) ==
    \/ \E q \in our(p, "Bishop") :
          /\ q # s
          /\ Diagonal([from |-> q, to |-> s])
          /\ PathClear(p.board, [from |-> q, to |-> s])
    \/ \E q \in our(p, "Pawn") :
          /\ Abs(FileOf(s) - FileOf(q)) = 1
          /\ RankOf(s) - RankOf(q) = Forward(p.turn)

\* what every position of a Chess satisfies: no pawn on a back rank, and the
\* king of the side that has just moved is not left attacked
WellFormed(p) ==
    /\ \A s \in from_rank(0) \cup from_rank(7) : p.board[s] \notin {"P", "p"}
    /\ \A s \in their(p, "King") : ~Attacks(p, s)

\* rows of pieces laid on ranks, the kings on e1 and e8
Laid(rows, turn) ==
    [board |->
        [s \in Squares |->
            IF \E w \in rows : RankOf(s) = w.rank /\ FileOf(s) - w.file \in 0..(Len(w.row) - 1)
            THEN LET w == CHOOSE w \in rows :
                              RankOf(s) = w.rank /\ FileOf(s) - w.file \in 0..(Len(w.row) - 1)
                 IN w.row[FileOf(s) - w.file + 1]
            ELSE IF s = Sq(4, 0) THEN "K"
            ELSE IF s = Sq(4, 7) THEN "k"
            ELSE Empty],
     turn |-> turn]

\* the run of the spec: bishops of the side to move about two enemy pawns
Run(turn) ==
    IF turn = "White" THEN <<"B", "p", "p", "B">> ELSE <<"b", "P", "P", "b">>

\* the run alone on a rank, the king of the side not to move on any file
\* of its back rank
RunOn(rank, file, turn, kfile) ==
    LET p == Laid({[rank |-> rank, file |-> file, row |-> Run(turn)]}, turn)
        back == IF turn = "White" THEN 7 ELSE 0
    IN [p EXCEPT !.board = [p.board EXCEPT ![Sq(4, back)] = Empty,
                                           ![Sq(kfile, back)] = Char(Other(turn), "King")]]

\* two ranks that each hold the run, and one rank that holds it twice
TwoRanks(turn) ==
    Laid({[rank |-> 3, file |-> 2, row |-> Run(turn)],
          [rank |-> 4, file |-> 0, row |-> Run(turn)]}, turn)

TwoRuns(turn) ==
    Laid({[rank |-> 3, file |-> 0, row |-> Run(turn) \o Tail(Run(turn))]}, turn)

\* the run with an empty square after its k-th piece
Gapped(rank, file, k, turn) ==
    Laid({[rank |-> rank, file |-> file,
           row |-> SubSeq(Run(turn), 1, k) \o <<Empty>> \o SubSeq(Run(turn), k + 1, 4)]},
         turn)

\* the bishops of the run on one rank, its pawns between them on another
Split(rank, rank2, file, turn) ==
    Laid({[rank |-> rank, file |-> file,
           row |-> <<Run(turn)[1], Empty, Empty, Run(turn)[4]>>],
          [rank |-> rank2, file |-> file + 1, row |-> SubSeq(Run(turn), 2, 3)]}, turn)

\* the step of the mover's king towards the middle of its rank, and a token
\* that names no piece of the mover
KingStep(p) ==
    LET k == Lowest(our(p, "King"))
    IN [from |-> k, to |-> IF FileOf(k) < 4 THEN k + 1 ELSE k - 1]

NoMove(p) == [from |-> Lowest(their(p, "King")), to |-> Lowest(our(p, "King"))]

StartOn(p) ==
    /\ WellFormed(p)
    /\ stats = [new EXCEPT !.pos = p]
    /\ pc = "game"
    /\ fileIdx = 1
    /\ varDepth = 0
    /\ skipping = FALSE
    /\ sideSeen = FALSE
    /\ out = <<>>
    /\ replay = p
    /\ mainSeen = 0
    /\ gamesSeen = 1
    /\ last = [op |-> "start", passed |-> 0, ilvaticanos |-> 0]

InitDet ==
    \/ \E w \in WindowStarts, pat \in [Window -> Alphabet], turn \in Colors :
          StartOn(Arranged(w, pat, turn))
    \/ \E rank \in 1..6, file \in 0..4, turn \in Colors, kfile \in 0..7 :
          StartOn(RunOn(rank, file, turn, kfile))
    \/ \E turn \in Colors : StartOn(TwoRanks(turn)) \/ StartOn(TwoRuns(turn))
    \/ \E rank \in 1..6, file \in 0..3, k \in 1..3, turn \in Colors :
          StartOn(Gapped(rank, file, k, turn))
    \/ \E rank \in 1..6, rank2 \in 1..6, file \in 0..4, turn \in Colors :
          rank # rank2 /\ StartOn(Split(rank, rank2, file, turn))

SanLegal == mainSeen = 0 /\ San(KingStep(stats.pos))

SanIllegal == mainSeen = 0 /\ San(NoMove(stats.pos))

NextDet == SanLegal \/ SanIllegal

SpecDet == InitDet /\ [][NextDet]_vars

-----------------------------------------------------------------------------
(* One long file of games without moves, read to its end or to the game    *)
(* at which the last of MaxReports progress reports is due.                *)

MaxReports == 2

\* the progress reports a file of games without moves has had printed
\* when n of them are due
ReportsDue(n) ==
    [k \in 1..n |->
        [kind |-> "progress", file |-> 0,
         stats |-> Counters([new EXCEPT !.games = k * REPORT_EVERY])]]

\* the reader between two games of the file, g games read
BetweenGames(g) ==
    /\ stats = [new EXCEPT !.games = g]
    /\ pc = "idle"
    /\ fileIdx = 1
    /\ varDepth = 0
    /\ skipping = FALSE
    /\ sideSeen = FALSE
    /\ out = ReportsDue(g \div REPORT_EVERY)
    /\ replay = ChessDefault
    /\ mainSeen = 0
    /\ gamesSeen = g
    /\ last = [op |-> IF g = 0 THEN "open" ELSE "end_game",
               passed |-> 0, ilvaticanos |-> 0]

\* the file just opened; and, so that the games at which a report is due
\* are near a start, the states the same run is in one game before each
\* of them (LongRunMeetsStarts: the run from the opened file passes through
\* exactly these states)
InitLong ==
    \/ BetweenGames(0)
    \/ \E k \in 1..MaxReports : BetweenGames(k * REPORT_EVERY - 1)

\* between two games the run is in the state BetweenGames describes
LongRunMeetsStarts == pc = "idle" => BetweenGames(gamesSeen)

BeginGameOfMany ==
    /\ pc = "idle"
    /\ gamesSeen < MaxReports * REPORT_EVERY
    /\ stats' = begin_game(stats)
    /\ pc' = "game"
    /\ replay' = ChessDefault
    /\ gamesSeen' = gamesSeen + 1
    /\ last' = [op |-> "begin_game", passed |-> 0, ilvaticanos |-> 0]
    /\ UNCHANGED <<fileIdx, varDepth, skipping, sideSeen, out, mainSeen>>

NextLong == BeginGameOfMany \/ EndGame \/ EndFile

SpecLong == InitLong /\ [][NextLong]_vars

-----------------------------------------------------------------------------
(* Runs over finite files. A file is a finite text: the reader cannot open  *)
(* and close side-lines for ever, so a side-line of every depth that is     *)
(* open again and again is closed (SF on CloseSideLine), and a step of the  *)
(* mainline, of the file or of main that is possible again and again is     *)
(* taken (SF on MainStep).                                                  *)

\* 1. d4 e5 2. dxe5: in any other order a token does not resolve
FairTokens == {Mv(3, 2, 3, 4), Mv(4, 7, 4, 5), Mv(3, 4, 4, 5)}

MainStep ==
    \/ OpenFile
    \/ OpenFail
    \/ ReadFail
    \/ BeginGame
    \/ \E t \in FairTokens : San(t)
    \/ EndGame
    \/ EndFile
    \/ Finish

CloseSideLine(d) == varDepth = d /\ EndVariation

NextFair ==
    \/ MainStep
    \/ BeginVariation
    \/ \E t \in FairTokens : SideSan(t)
    \/ EndVariation

SpecFair ==
    /\ Init
    /\ [][NextFair]_vars
    /\ SF_vars(MainStep)
    /\ \A d \in 1..MaxVarDepth : SF_vars(CloseSideLine(d))

-----------------------------------------------------------------------------
(* The words of the specification, said of a position *)

\* a half-move token has just been delivered to on_halfmove (san)
SanStep == mainSeen' = mainSeen + 1

\* the rank segment of rank r in the board encoding
Segment(p, r) == RankFen(p.board, r, 0, 0)

\* the encoding holds the run of the side to move inside one rank segment
HasRun(p) == \E r \in 0..7 : contains(Segment(p, r), Run(p.turn))

\* the side to move has a bishop on a square of the piece-band mask
BishopInBand(p) == \E s \in BISHOP_MASK : p.board[s] = Char(p.turn, "Bishop")

\* rank r holds two bishops of the side to move and two pawns of the other
RankPair(p, r) ==
    /\ Cardinality({x \in 0..7 : p.board[Sq(x, r)] = Char(p.turn, "Bishop")}) >= 2
    /\ Cardinality({x \in 0..7 : p.board[Sq(x, r)] = Char(Other(p.turn), "Pawn")}) >= 2

NonBackRanks == 1..6

\* the outcome of the three stages of the detector
Outcome(p) ==
    IF ~BishopInBand(p) THEN "skip"
    ELSE IF ~\E r \in NonBackRanks : RankPair(p, r) THEN "skip"
    ELSE IF HasRun(p) THEN "confirmed"
    ELSE "pass-only"

-----------------------------------------------------------------------------
(* Claims *)

\* C1: on_halfmove counts a motif confirmation exactly when the encoding of
\* the position before the move holds, inside one rank segment, the run
\* bishop, pawn, pawn, bishop of the side to move (bPPb for Black, BppB for
\* White).
C1_ConfirmedIffRun ==
    [][SanStep =>
         ((stats'.ilvaticanos = stats.ilvaticanos + 1) <=> HasRun(stats.pos))]_vars

\* a half-move of Black was counted as a confirmation and then played
C1_Witness ==
    /\ last.op = "san"
    /\ last.ilvaticanos = 1
    /\ pc = "game"
    /\ stats.pos.turn = "White"

\* C2: when the side to move has no bishop on the piece-band mask, the
\* half-move changes neither pre-filter passes nor motif confirmations,
\* wherever the pawns and the other pieces stand.
C2_NoBandBishopSkips ==
    [][SanStep /\ ~BishopInBand(stats.pos) =>
         /\ stats'.passed = stats.passed
         /\ stats'.ilvaticanos = stats.ilvaticanos]_vars

\* skipped at stage 1 although a rank holds two bishops and two enemy pawns
C2_Witness ==
    /\ last.op = "san"
    /\ pc = "aborted"
    /\ last.passed = 0
    /\ ~BishopInBand(stats.pos)
    /\ \E r \in NonBackRanks : RankPair(stats.pos, r)

\* C3: a position that passes stage 1 is passed by the pre-filter exactly
\* when one of ranks 2 to 7 holds two bishops of the side to move and two
\* pawns of the opponent on that same rank; otherwise both counters stay.
C3_RankPairDecides ==
    [][SanStep /\ BishopInBand(stats.pos) =>
         /\ (stats'.passed = stats.passed + 1)
                <=> (\E r \in NonBackRanks : RankPair(stats.pos, r))
         /\ (~\E r \in NonBackRanks : RankPair(stats.pos, r)) =>
                /\ stats'.passed = stats.passed
                /\ stats'.ilvaticanos = stats.ilvaticanos]_vars

\* skipped at stage 2: two bishops on one rank, two enemy pawns on another
C3_Witness ==
    /\ last.op = "san"
    /\ pc = "aborted"
    /\ last.passed = 0
    /\ BishopInBand(stats.pos)
    /\ \E r \in NonBackRanks, r2 \in NonBackRanks :
          /\ r # r2
          /\ Cardinality(our(stats.pos, "Bishop") \cap from_rank(r)) >= 2
          /\ Cardinality(their(stats.pos, "Pawn") \cap from_rank(r2)) >= 2

\* C4: whenever a half-move callback may start, Position is the starting
\* arrangement with the mainline moves of the current game played on it, in
\* the order the reader delivered them; side-line tokens and the moves of
\* earlier games are not in it.
C4_PositionIsMainline == pc = "game" => stats.pos = replay

\* one move into the second game of a file whose first game had moves
C4_Witness ==
    /\ pc = "game"
    /\ last.op = "san"
    /\ stats.games = 1
    /\ stats.sans >= 4
    /\ stats.pos = play_unchecked(ChessDefault, Mv(3, 2, 3, 4))

\* C5: half-moves equals the number of mainline tokens delivered from the
\* file, whatever the detector answered; tokens inside side-lines add nothing.
C5_SansCountsMainline == stats.sans = mainSeen

\* inside a nested side-line, a token passed over, after a pre-filter pass
C5_Witness ==
    /\ varDepth >= 2
    /\ sideSeen
    /\ stats.passed >= 1
    /\ stats.sans >= 9

\* C6: a half-move adds one to pre-filter passes when the detector answers
\* pass-only or confirmed and nothing on skip, and one to motif confirmations
\* when it answers confirmed and nothing otherwise; never more than one.
C6_CountersFollowOutcome ==
    [][SanStep =>
         /\ stats'.passed =
               stats.passed + (IF Outcome(stats.pos) = "skip" THEN 0 ELSE 1)
         /\ stats'.ilvaticanos =
               stats.ilvaticanos + (IF Outcome(stats.pos) = "confirmed" THEN 1 ELSE 0)]_vars

\* a position in which two ranks hold the run was counted once
C6_Witness ==
    /\ last.op = "san"
    /\ pc = "aborted"
    /\ last.passed = 1
    /\ last.ilvaticanos = 1
    /\ Cardinality({r \in NonBackRanks : RankPair(stats.pos, r)}) >= 2

\* C7: motif confirmations <= pre-filter passes <= half-moves, always.
C7_CountersOrdered ==
    /\ stats.ilvaticanos <= stats.passed
    /\ stats.passed <= stats.sans

\* a pass that was not a confirmation has been counted
C7_Witness ==
    /\ stats.passed = 1
    /\ stats.ilvaticanos = 0
    /\ pc = "game"

\* C8: games rises by one at every end_game and at no other callback of a
\* file, and a file of one game without moves is reported with games = 1
\* and the other three counters 0.
C8_GamesCountsEndGame ==
    [][/\ EndGame => stats'.games = stats.games + 1
       /\ ~EndGame /\ ~OpenFile => stats'.games = stats.games
       /\ EndFile /\ gamesSeen = 1 /\ mainSeen = 0 =>
             out'[Len(out')].stats =
                 [games |-> 1, sans |-> 0, ilvaticanos |-> 0, passed |-> 0]]_vars

\* the report of a file of one game without moves has been printed
C8_Witness ==
    /\ pc = "main"
    /\ last.op = "end_file"
    /\ gamesSeen = 1
    /\ mainSeen = 0
    /\ out[Len(out)].stats.games = 1

\* C9: begin_game leaves Position at the starting arrangement whatever it
\* was, does not fail, and a second begin_game would change nothing.
C9_BeginGameResets ==
    [][BeginGame =>
         /\ stats'.pos = ChessDefault
         /\ pc' = "game"
         /\ begin_game(stats') = stats']_vars

\* a second game has begun after a first one that had moves
C9_Witness ==
    /\ last.op = "begin_game"
    /\ pc = "game"
    /\ stats.games >= 1
    /\ stats.sans >= 3

\* C10: begin_variation answers skip in every state, so the reader is
\* skipping at every depth of a side-line, and a token inside a side-line
\* changes neither Position nor a counter.
C10_SideLinesSkipped ==
    [][/\ BeginVariation => skipping'
       /\ (\E t \in Tokens : SideSan(t)) => stats' = stats /\ replay' = replay]_vars

\* a token was passed over in a nested side-line, in a position in which a
\* token of the input, played, gives a position that holds the run
C10_Witness ==
    /\ varDepth >= 2
    /\ sideSeen
    /\ stats.ilvaticanos = 0
    /\ \E t \in Tokens :
          /\ to_move_ok(stats.pos, t)
          /\ HasRun(play_unchecked(stats.pos, t))

\* the four squares from file f on of rank r hold the run of color
RunAt(p, color, f, r) ==
    \A i \in 1..4 : p.board[Sq(f + i - 1, r)] = Run(color)[i]

\* the geometric motif: some rank holds the run of color on adjacent squares
GeoRun(p, color) == \E r \in 0..7, f \in 0..4 : RunAt(p, color, f, r)

\* the run with one empty square between its k-th and its next piece
GapRow(color, k) ==
    SubSeq(Run(color), 1, k) \o <<Empty>> \o SubSeq(Run(color), k + 1, 4)

\* a rank of 2..7 holds the mover's run with one empty square between a
\* bishop and the pawn next to it
GappedRun(p) ==
    \E r \in NonBackRanks, f \in 0..3, k \in {1, 3} :
        \A i \in 1..5 : p.board[Sq(f + i - 1, r)] = GapRow(p.turn, k)[i]

\* C11 as stated: on a position whose rank of 2..7 holds the mover's run
\* with one empty square between a bishop and its pawn, and no run
\* elsewhere, the half-move is a pre-filter pass without a confirmation.
C11_GappedRunPassesAnywhere ==
    [][SanStep /\ GappedRun(stats.pos) /\ ~GeoRun(stats.pos, stats.pos.turn) =>
         /\ stats'.passed = stats.passed + 1
         /\ stats'.ilvaticanos = stats.ilvaticanos]_vars

\* C11: on a position whose rank of 2..7 holds the mover's run with one
\* empty square between a bishop and its pawn, no run elsewhere, and a
\* bishop of the mover on the piece-band mask, the half-move is a pre-filter
\* pass without a confirmation.
C11_GappedRunInBandPasses ==
    [][(/\ SanStep
        /\ GappedRun(stats.pos)
        /\ ~GeoRun(stats.pos, stats.pos.turn)
        /\ BishopInBand(stats.pos)) =>
         /\ stats'.passed = stats.passed + 1
         /\ stats'.ilvaticanos = stats.ilvaticanos]_vars

\* the half-move on a gapped run with a bishop on the mask was a pass only
C11_Witness ==
    /\ last.op = "san"
    /\ pc = "aborted"
    /\ last.passed = 1
    /\ last.ilvaticanos = 0
    /\ GappedRun(stats.pos)
    /\ BishopInBand(stats.pos)

\* the lines of the final report and of the report of file number n
FinalReports(lines) == {i \in 1..Len(lines) : lines[i].kind = "took"}

FileReports(lines, n) ==
    {i \in 1..Len(lines) : lines[i].kind = "file" /\ lines[i].file = n}

\* C12: a mainline token that does not resolve to a legal move aborts the
\* run: Position keeps the position before the token, nothing is printed at
\* that step, the lines printed before remain, neither the report of the
\* current file nor the final report has been or will be printed, and no
\* step of any game or file follows.
C12_IllegalTokenAborts ==
    [][/\ \A t \in Tokens :
             (San(t) /\ ~to_move_ok(stats.pos, t)) =>
                 /\ pc' = "aborted"
                 /\ stats'.pos = stats.pos
                 /\ out' = out
                 /\ FinalReports(out') = {}
                 /\ FileReports(out', fileIdx') = {}
       /\ pc # "aborted"]_vars

\* the second file of a run aborted on a token after a move of its game,
\* the report of the first file printed
C12_Witness ==
    /\ pc = "aborted"
    /\ last.op = "san"
    /\ fileIdx = 2
    /\ FileReports(out, 1) # {}
    /\ stats.pos # ChessDefault

\* C13: while one file is being read, no step of the reader or the visitor
\* lowers games, half-moves, motif confirmations or pre-filter passes.
C13_CountersNeverDecrease ==
    [][fileIdx' = fileIdx =>
         /\ stats'.games >= stats.games
         /\ stats'.sans >= stats.sans
         /\ stats'.ilvaticanos >= stats.ilvaticanos
         /\ stats'.passed >= stats.passed]_vars

\* a second game has begun in a file whose four counters are all positive
C13_Witness ==
    /\ last.op = "begin_game"
    /\ stats.games >= 1
    /\ stats.sans >= 1
    /\ stats.ilvaticanos >= 1
    /\ stats.passed >= 1

\* the file reports among the lines stand in the order of the arguments
ReportsInOrder(lines) ==
    \A i \in 1..Len(lines), j \in 1..Len(lines) :
        (i < j /\ lines[i].kind = "file" /\ lines[j].kind = "file") =>
            lines[i].file < lines[j].file

\* C14: the arguments are taken one by one in their order, each with a
\* counter of zeros; the report of a file is the line printed when the
\* reader has finished it, it shows the games ended and the mainline
\* half-moves delivered in that file alone, and while a file is being read
\* every earlier file has its one report and the file itself has none.
C14_FilesInOrderFreshCounters ==
    [][/\ OpenFile =>
             /\ fileIdx' = fileIdx + 1
             /\ Counters(stats') = Counters(new)
       /\ EndFile =>
             /\ Len(out') = Len(out) + 1
             /\ out'[Len(out')].kind = "file"
             /\ out'[Len(out')].file = fileIdx
             /\ out'[Len(out')].stats.games = gamesSeen
             /\ out'[Len(out')].stats.sans = mainSeen
             /\ out'[Len(out')].stats.passed = stats.passed
             /\ out'[Len(out')].stats.ilvaticanos = stats.ilvaticanos
       /\ pc' \in {"idle", "game"} =>
             /\ \A n \in 1..(fileIdx' - 1) : Cardinality(FileReports(out', n)) = 1
             /\ FileReports(out', fileIdx') = {}
       /\ ReportsInOrder(out')]_vars

\* two files, each of one game with moves, have been reported
C14_Witness ==
    /\ pc = "main"
    /\ last.op = "end_file"
    /\ Len(out) = 2
    /\ out[1].kind = "file" /\ out[1].file = 1
    /\ out[1].stats.games = 1 /\ out[1].stats.sans >= 2
    /\ out[2].kind = "file" /\ out[2].file = 2
    /\ out[2].stats.games = 1 /\ out[2].stats.sans = 1

\* the progress reports among the lines, in the order they were printed
ProgressReports(lines) == SelectSeq(lines, LAMBDA l : l.kind = "progress")

\* C15: a progress report is printed by end_game when games, the game just
\* ended counted, is a positive multiple of REPORT_EVERY, and at no other
\* step; so when g games of a file have ended there are g div REPORT_EVERY
\* progress reports, the k-th showing games = k * REPORT_EVERY.
C15_ProgressEveryNthGame ==
    [][/\ (Len(ProgressReports(out')) = Len(ProgressReports(out)) + 1)
             <=> (EndGame /\ stats'.games > 0 /\ stats'.games % REPORT_EVERY = 0)
       /\ Len(ProgressReports(out')) \in
             {Len(ProgressReports(out)), Len(ProgressReports(out)) + 1}
       /\ pc' \in {"idle", "main"} =>
             /\ Len(ProgressReports(out')) = gamesSeen' \div REPORT_EVERY
             /\ \A k \in 1..Len(ProgressReports(out')) :
                   ProgressReports(out')[k].stats.games = k * REPORT_EVERY]_vars

\* a file has been read to its end after its second progress report
C15_Witness ==
    /\ pc = "main"
    /\ last.op = "end_file"
    /\ Len(ProgressReports(out)) = 2
    /\ gamesSeen = 2 * REPORT_EVERY

NoBackRankPawn(p) ==
    \A s \in from_rank(0) \cup from_rank(7) : p.board[s] \notin {"P", "p"}

\* C16: on a position without a pawn on a back rank in which a rank holds
\* the mover's run on adjacent squares, the mover has a bishop on the
\* piece-band mask, the rank of the run is one of 2..7 and holds two mover
\* bishops and two enemy pawns, and the half-move adds one to pre-filter
\* passes and one to motif confirmations.
C16_StagesKeepTrueMotif ==
    [][\A r \in 0..7, f \in 0..4 :
          (/\ SanStep
           /\ NoBackRankPawn(stats.pos)
           /\ RunAt(stats.pos, stats.pos.turn, f, r)) =>
             /\ BishopInBand(stats.pos)
             /\ r \in NonBackRanks
             /\ RankPair(stats.pos, r)
             /\ stats'.passed = stats.passed + 1
             /\ stats'.ilvaticanos = stats.ilvaticanos + 1]_vars

\* a run from the a file and a run from the e file, each with one bishop
\* off the mask, were counted
C16_Witness ==
    /\ last.op = "san"
    /\ pc = "aborted"
    /\ last.passed = 1
    /\ last.ilvaticanos = 1
    /\ \E r \in NonBackRanks :
          \/ RunAt(stats.pos, stats.pos.turn, 0, r)
          \/ RunAt(stats.pos, stats.pos.turn, 4, r)

\* the pieces of the run of color stand in reading order on four squares
\* that follow one another from the h file of rank r on to the rank below
Straddles(p, color, r) ==
    \E f \in 5..7 :
        \A i \in 1..4 :
            p.board[FenSquare(FenIndex(Sq(f, r)) + i - 1)] = Run(color)[i]

\* C17: for either color, the encoding of the board contains the run of
\* that color (bPPb, BppB) exactly when some rank holds a bishop of the
\* color on files f and f+3 and enemy pawns on files f+1 and f+2, f in
\* a..e; pieces in that order across a rank boundary or about an empty
\* square are no match.
C17_SubstringIsGeometry ==
    \A color \in Colors :
        contains(board_fen(stats.pos.board), Run(color)) <=> GeoRun(stats.pos, color)

\* a half-move was handled on a board on which the pieces of a run stand in
\* reading order across a rank boundary, and its encoding holds no run
C17_Witness ==
    /\ last.op = "san"
    /\ pc = "aborted"
    /\ \E color \in Colors, r \in 2..6 : Straddles(stats.pos, color, r)
    /\ \A color \in Colors : ~contains(board_fen(stats.pos.board), Run(color))

\* C18: what a mainline half-move adds to the two detector counters is the
\* outcome of the detector on the position the moves delivered before it
\* in this game lead to, the side to play it being the mover; the move is
\* played on that position only then, and nothing is counted for the
\* position it gives unless a further half-move is delivered: end_game
\* counts nothing for the position after the last move.
C18_ExaminedBeforeMove ==
    [][/\ SanStep =>
             /\ stats'.passed - stats.passed =
                   (IF Outcome(replay) = "skip" THEN 0 ELSE 1)
             /\ stats'.ilvaticanos - stats.ilvaticanos =
                   (IF Outcome(replay) = "confirmed" THEN 1 ELSE 0)
             /\ \A t \in Tokens :
                   (San(t) /\ to_move_ok(replay, t)) =>
                       stats'.pos = play_unchecked(replay, t)
       /\ EndGame =>
             /\ stats'.passed = stats.passed
             /\ stats'.ilvaticanos = stats.ilvaticanos
             /\ stats'.pos = stats.pos]_vars

\* a game has ended on a position that holds the run of the side to move,
\* and no confirmation was counted
C18_Witness ==
    /\ last.op = "end_game"
    /\ stats.games = 1
    /\ stats.sans = 8
    /\ Outcome(replay) = "confirmed"
    /\ stats.ilvaticanos = 0

\* the squares on files d, e, f of ranks 2 to 7
BandSquares == {s \in Squares : FileOf(s) \in 3..5 /\ RankOf(s) \in 1..6}

\* C19: the set of the bits of 15824412808329216, bit k being square k
\* (0 = a1, 63 = h8), is the 18 squares on files d, e, f of ranks 2 to 7:
\* no square of rank 1 or 8 and no square of another file is in it; so the
\* mover's bishops stage 1 finds are those on these squares.
C19_MaskIsBand ==
    /\ BISHOP_MASK = BandSquares
    /\ Cardinality(BISHOP_MASK) = 18
    /\ BISHOP_MASK \cap (from_rank(0) \cup from_rank(7)) = {}
    /\ \A s \in BISHOP_MASK : FileOf(s) \in {3, 4, 5}
    /\ our(stats.pos, "Bishop") \cap BISHOP_MASK = our(stats.pos, "Bishop") \cap BandSquares

\* a half-move passed the pre-filter on a position whose only mover bishop
\* on the mask stands on a corner of the band
C19_Witness ==
    /\ last.op = "san"
    /\ pc = "aborted"
    /\ last.passed = 1
    /\ \E s \in {Sq(3, 1), Sq(5, 1), Sq(3, 6), Sq(5, 6)} :
          our(stats.pos, "Bishop") \cap BISHOP_MASK = {s}

Ended == pc \in {"done", "aborted"}

\* the lines of a completed run: the report of every argument, in the order
\* of the arguments, and then the final report
CompletedOutput ==
    /\ Len(out) = fileIdx + 1
    /\ \A n \in 1..fileIdx : out[n].kind = "file" /\ out[n].file = n
    /\ out[fileIdx + 1].kind = "took"

\* C20: a run over finite files ends, completed or aborted and not both; a
\* completed run has printed the report of every file in argument order and
\* then the final report (without arguments the final report alone, no game
\* read); an aborted run has printed no final report; nothing follows the
\* end, and before the end a next step is always possible.
C20_RunEnds ==
    /\ <>Ended
    /\ [](pc = "done" => CompletedOutput)
    /\ [](pc = "done" /\ fileIdx = 0 => out = <<out[1]>> /\ gamesSeen = 0 /\ stats = new)
    /\ [](pc = "aborted" => FinalReports(out) = {})
    /\ [][~Ended]_vars
    /\ [](~Ended => ENABLED <<NextFair>>_vars)

\* a run of two files, games read, has completed
C20_Witness ==
    /\ pc = "done"
    /\ fileIdx = 2
    /\ Len(out) = 3
    /\ out[1].stats.games >= 1
    /\ out[2].stats.sans >= 1

====
